---- MODULE Spec2Model ----
(***************************************************************************)
(* Handel: multi-signature aggregation.  A model of the signature store    *)
(* (store.go), the evaluator processing (processing.go), the binomial      *)
(* partitioner and the orchestrator's verified-signature loop (handel.go). *)
(*                                                                         *)
(* A BitSet is modelled by its bit length and the set of its set           *)
(* positions.  A Signature is modelled by the bag of the contributions     *)
(* aggregated in it (positions of the level's candidate set) and a flag    *)
(* telling whether every aggregated share is genuine.                      *)
(***************************************************************************)
EXTENDS Integers, Naturals, Sequences, FiniteSets, Bags, TLC

\* Registry size of the store test (n := 8) and the node's own identifier.
RegistrySize == 8
OwnId == 1

\* Bounds of the model: the number of Add calls of a run and the capacity of the
\* Verified channel (1000 in the code, scaled down).
MaxAdds == 3

\* The calls of Stop made on a processor alone.
MaxStops == 2

\* The capacity given to the incoming channel of the fifo processor.
FifoCap == 1

\* The packets handed to a node with the fifo processor.
MaxFifoAdds == 5
VerifiedCap == 1

(***************************************************************************)
(* Helpers of the repository whose source is not under src/.               *)
(***************************************************************************)
RECURSIVE log2(_)
log2(n) == IF n <= 1 THEN 0 ELSE 1 + log2(n \div 2)

RECURSIVE pow2(_)
pow2(k) == IF k <= 0 THEN 1 ELSE 2 * pow2(k - 1)

\* isSet(nb, index): bit index of nb; a shift by a huge count (index -1 as uint) is 0.
isSet(nb, idx) == IF idx < 0 THEN FALSE ELSE (nb \div pow2(idx)) % 2 = 1

\* BitSet operations (fresh results, receiver untouched).
Or(a, b) == a \cup b
And(a, b) == a \cap b
Xor(a, b) == (a \ b) \cup (b \ a)
IsSuperSet(a, b) == b \subseteq a
IntersectionCardinality(a, b) == Cardinality(a \cap b)

\* NextSet(bs, from): <<position, found>> of the first set bit at or after from.
NextSet(bs, from) ==
    LET after == {p \in bs : p >= from}
    IN IF after = {} THEN <<0, FALSE>>
       ELSE <<CHOOSE p \in after : \A q \in after : p <= q, TRUE>>

(***************************************************************************)
(* Signatures (SigBLS) and multi-signatures.                               *)
(***************************************************************************)
\* Constructor.Signature(): new(SigBLS), the neutral element of Combine.
EmptySignature == [valid |-> TRUE, c |-> EmptyBag]

\* SigBLS.Combine: point addition; the receiver with a nil point yields the argument.
Combine(s1, s2) == [valid |-> s1.valid /\ s2.valid, c |-> s1.c (+) s2.c]

\* The signature a set of honest contributors produces.
GoodSig(bs) == [valid |-> TRUE, c |-> SetToBag(bs)]

\* A MultiSignature: the bitset (its bit length and its set bits) and the signature.
MultiSig(len, bs, sig) == [len |-> len, bs |-> bs, sig |-> sig]

\* MultiSignature.Cardinality is the cardinality of the embedded bitset.
Card(ms) == Cardinality(ms.bs)

(***************************************************************************)
(* binomialPartitioner.                                                    *)
(***************************************************************************)
MaxLevel == log2(RegistrySize)

Levels == 0 .. MaxLevel

\* The loop of rangeLevel with the inversion made one bit above the requested
\* prefix length.
RECURSIVE rangeLoopShifted(_, _, _, _, _, _)
rangeLoopShifted(size, id, maxIdx, idx, min, max) ==
    IF ~(idx >= maxIdx /\ min <= max) THEN <<min, max>>
    ELSE LET middle == (max + min) \div 2
             mm == IF isSet(id, idx)
                   THEN (IF idx = maxIdx + 1 THEN <<min, middle>> ELSE <<middle, max>>)
                   ELSE (IF idx = maxIdx + 1 THEN <<middle, max>> ELSE <<min, middle>>)
         IN IF mm[2] = mm[1] THEN mm
            ELSE IF mm[2] - 1 = 0 \/ mm[1] = size THEN mm
            ELSE rangeLoopShifted(size, id, maxIdx, idx - 1, mm[1], mm[2])

\* The loop of rangeLevel of a partitioner of a registry of the given size.
RECURSIVE rangeLoop(_, _, _, _, _, _)
rangeLoop(size, id, maxIdx, idx, min, max) ==
    IF ~(idx >= maxIdx /\ min <= max) THEN <<min, max>>
    ELSE LET middle == (max + min) \div 2
             mm == IF isSet(id, idx)
                   THEN (IF idx = maxIdx THEN <<min, middle>> ELSE <<middle, max>>)
                   ELSE (IF idx = maxIdx THEN <<middle, max>> ELSE <<min, middle>>)
         IN IF mm[2] = mm[1] THEN mm
            ELSE IF mm[2] - 1 = 0 \/ mm[1] = size THEN mm
            ELSE rangeLoop(size, id, maxIdx, idx - 1, mm[1], mm[2])

\* rangeLevel of the partitioner of identifier id in a registry of the given
\* size: the range [min, max[ of the candidate set of a level.
rangeLevelOf(size, id, level) == rangeLoop(size, id, level - 1, log2(size) - 1, 0, size)

\* rangeLevel of a partitioner of the registry of the node.
rangeLevel(id, level) == rangeLevelOf(RegistrySize, id, level)

\* The loop of rangeLevelInverse: the half the identifier is in, at every bit.
RECURSIVE rangeLoopInverse(_, _, _, _, _, _)
rangeLoopInverse(size, id, maxIdx, idx, min, max) ==
    IF ~(idx >= maxIdx /\ min <= max) THEN <<min, max>>
    ELSE LET middle == (max + min) \div 2
             mm == IF isSet(id, idx) THEN <<middle, max>> ELSE <<min, middle>>
         IN IF mm[2] = mm[1] THEN mm
            ELSE IF mm[2] - 1 = 0 \/ mm[1] = size THEN mm
            ELSE rangeLoopInverse(size, id, maxIdx, idx - 1, mm[1], mm[2])

\* rangeLevelInverse stopping one bit early: the range of the level above.
rangeLevelInverseUp(size, id, level) ==
    rangeLoopInverse(size, id, level, log2(size) - 1, 0, size)

\* rangeLevelInverse: the range [min, max[ the identifier is in, as the peers
\* of the level see it.
rangeLevelInverseOf(size, id, level) ==
    rangeLoopInverse(size, id, level - 1, log2(size) - 1, 0, size)

rangeLevelInverse(id, level) == rangeLevelInverseOf(RegistrySize, id, level)

\* binomialPartitioner.Size of the node's own partitioner (computed once per level).
SizeOf == [level \in Levels |-> rangeLevel(OwnId, level)[2] - rangeLevel(OwnId, level)[1]]

Size(level) == SizeOf[level]

Positions(level) == 0 .. (Size(level) - 1)

(***************************************************************************)
(* State.                                                                  *)
(***************************************************************************)
VARIABLES
    m,                 \* replaceStore.m: level -> best MultiSignature (a Go map)
    highest,           \* replaceStore.highest
    indivSigsVerified, \* replaceStore.indivSigsVerified: level -> BitSet
    individualSigs,    \* replaceStore.individualSigs: level -> position -> MultiSignature
    last,              \* the last Store call: its arguments, its results, its effect
    \* evaluatorProcessing
    todos,             \* f.todos
    out,               \* f.out: the buffered Verified channel
    outClosed,         \* close(f.out) was executed
    pc,                \* the position of processLoop
    scan,              \* the locals of readTodos during a pass
    stats,             \* sigCheckedCt, sigQueueSize, sigSuppressed
    sigSleepTime,      \* f.sigSleepTime
    evaluator,         \* f.evaluator: "store" (EvaluatorStore) or "one" (Evaluator1)
    \* Handel
    hpc,               \* the position of rangeOnVerified
    v,                 \* the signature rangeOnVerified has received
    hBest,             \* h.best
    final,             \* the multi-signatures sent on h.out
    done,              \* h.done (h.out is closed with it)
    crashed,           \* the process has panicked
    threshold,         \* h.threshold
    hLock,             \* the packet a NewPacket holding the mutex of the node waits to send
    hLevels,           \* h.levels: the Level values, by level id
    ticks,             \* the periodicUpdate calls made: the update periods since Start
    tickHeld,          \* the ticker goroutine holds a tick and waits for the mutex of the node
    \* history
    added,             \* the signatures passed to Add
    published,         \* the signatures sent on the Verified channel
    dropped            \* the signatures whose verification error was logged

storeVars == <<m, highest, indivSigsVerified, individualSigs>>

procVars == <<todos, out, outClosed, pc, scan, stats>>

confVars == <<sigSleepTime, evaluator, threshold>>

handelVars == <<hpc, v, hBest, final, done, crashed>>

histVars == <<added, published, dropped>>

lockVars == <<hLock>>

levelVars == <<hLevels, ticks, tickHeld>>

nodeVars == <<procVars, confVars, lockVars, levelVars, handelVars, histVars>>

vars == <<storeVars, last, nodeVars>>

\* No call made yet.
NoCall == [op |-> "none", level |-> 0, bs |-> {}, n |-> <<>>, accepted |-> FALSE,
           changed |-> FALSE]

\* incomingSig: an unverified signature with its origin and level.
IncomingSig(origin, level, ms) == [origin |-> origin, level |-> level, ms |-> ms]

\* incomingSig.Individual
Individual(sp) == Card(sp.ms) = 1

(***************************************************************************)
(* replaceStore (store.go).                                                *)
(***************************************************************************)
\* newReplaceStore: m is empty, highest is 0, every level has an empty
\* verified-individuals bitset, no individual signature is kept.
StoreInit ==
    /\ m = <<>>
    /\ highest = 0
    /\ indivSigsVerified = [l \in Levels |-> {}]
    /\ individualSigs = [l \in Levels |-> <<>>]

\* newReplaceStore: the bit lengths of the verified-individuals bitsets.  The
\* loop ranges over part.Levels() with one variable i and makes the bitset of
\* key i with nbs(i); no later step replaces a bitset of the map.
indivSigsVerifiedLength == [i \in Levels |-> i]

\* The loop of unsafeCheckMerge over the verified individual signatures missing
\* in best.  Its step is NextSet( + 1), i.e. NextSet(1): with a missing bit at a
\* position >= 1 the loop finds that bit again and again and never ends (hang).
foldIndividuals(best, iS, indiv) ==
    LET first == NextSet(iS, 0)
        body(b, pos) == MultiSig(b.len, b.bs \cup {pos}, Combine(indiv[pos].sig, b.sig))
    IN IF ~first[2] THEN [ms |-> best, hang |-> FALSE]
       ELSE [ms |-> body(best, first[1]), hang |-> NextSet(iS, 1)[2]]

\* unsafeCheckMerge with the comparison of the two cardinalities turned around:
\* an overlapping signature replaces the best when it is smaller.
unsafeCheckMergeTurned(mm, vl, indiv, level, ms) ==
    IF level \notin DOMAIN mm
    THEN [ms |-> <<ms>>, store |-> TRUE, hang |-> FALSE]
    ELSE LET ms2 == mm[level]
             merged == Or(ms.bs, ms2.bs)
             disjoint == Cardinality(merged) = Card(ms2) + Card(ms)
             best == IF disjoint
                     THEN MultiSig(ms.len, merged, Combine(Combine(EmptySignature, ms.sig), ms2.sig))
                     ELSE ms
         IN IF ~disjoint /\ Card(ms) > Card(ms2)
            THEN [ms |-> <<>>, store |-> FALSE, hang |-> FALSE]
            ELSE [ms |-> <<best>>, store |-> TRUE, hang |-> FALSE]

\* unsafeCheckMerge that does not merge: a disjoint signature replaces the best
\* one like an overlapping one does.
unsafeCheckMergeNoUnion(mm, vl, indiv, level, ms) ==
    IF level \notin DOMAIN mm
    THEN [ms |-> <<ms>>, store |-> TRUE, hang |-> FALSE]
    ELSE IF Card(ms) < Card(mm[level])
         THEN [ms |-> <<>>, store |-> FALSE, hang |-> FALSE]
         ELSE [ms |-> <<ms>>, store |-> TRUE, hang |-> FALSE]

\* unsafeCheckMerge that combines the two signatures whether or not their
\* bitsets are disjoint.
unsafeCheckMergeAlways(mm, vl, indiv, level, ms) ==
    IF level \notin DOMAIN mm
    THEN [ms |-> <<ms>>, store |-> TRUE, hang |-> FALSE]
    ELSE LET ms2 == mm[level]
             merged == Or(ms.bs, ms2.bs)
         IN [ms |-> <<MultiSig(ms.len, merged, Combine(Combine(EmptySignature, ms.sig), ms2.sig))>>,
             store |-> TRUE, hang |-> FALSE]

\* unsafeCheckMerge: the signature to store and whether to store it.
unsafeCheckMerge(mm, vl, indiv, level, ms) ==
    IF level \notin DOMAIN mm
    THEN [ms |-> <<ms>>, store |-> TRUE, hang |-> FALSE]
    ELSE LET ms2 == mm[level]
             merged == Or(ms.bs, ms2.bs)
             disjoint == Cardinality(merged) = Card(ms2) + Card(ms)
             best == IF disjoint
                     THEN MultiSig(ms.len, merged, Combine(Combine(EmptySignature, ms.sig), ms2.sig))
                     ELSE ms
             iS == Xor(And(vl[level], best.bs), vl[level])
             folded == foldIndividuals(best, iS, indiv[level])
         IN IF ~disjoint /\ Card(ms) < Card(ms2)
            THEN [ms |-> <<>>, store |-> FALSE, hang |-> FALSE]
            ELSE [ms |-> <<folded.ms>>, store |-> TRUE, hang |-> folded.hang]

\* replaceStore.store
store(mm, level, ms) == [l \in DOMAIN mm \cup {level} |-> IF l = level THEN ms ELSE mm[l]]

\* replaceStore.Store.  For a signature of cardinality 1: the result of Or on
\* indivSigsVerified[level] is a fresh bitset that is dropped, so the bitset keeps
\* its value; the signature is kept in individualSigs[level] (the index is
\* missing in the source: the position of the set bit, the key unsafeCheckMerge
\* reads).  The second result is the constant true.
StoreResult(mm, vl, indiv, level, ms) ==
    LET indiv2 == IF Card(ms) = 1
                  THEN [indiv EXCEPT ![level] =
                          LET pos == CHOOSE p \in ms.bs : TRUE
                          IN [q \in DOMAIN @ \cup {pos} |-> IF q = pos THEN ms ELSE @[q]]]
                  ELSE indiv
        cm == unsafeCheckMerge(mm, vl, indiv2, level, ms)
    IN [m |-> IF cm.store THEN store(mm, level, cm.ms[1]) ELSE mm,
        highest |-> cm.store,
        vl |-> vl,
        indiv |-> indiv2,
        n |-> cm.ms,
        accepted |-> TRUE,
        hang |-> cm.hang]

\* The effect of Store on the store.
StoreEffect(level, ms) ==
    \E r \in {StoreResult(m, indivSigsVerified, individualSigs, level, ms)} :
       /\ ~r.hang
       /\ m' = r.m
       /\ highest' = IF r.highest /\ level > highest THEN level ELSE highest
       /\ indivSigsVerified' = r.vl
       /\ individualSigs' = r.indiv

\* What a caller of Store observes: the results and whether Best(level) changed.
StoreObserved(level, ms) ==
    LET r == StoreResult(m, indivSigsVerified, individualSigs, level, ms)
    IN [op |-> "Store", level |-> level, bs |-> ms.bs, n |-> r.n,
        accepted |-> r.accepted,
        changed |-> (level \notin DOMAIN m \/ r.m[level] # m[level])]

Store(level, ms) == StoreEffect(level, ms) /\ UNCHANGED last

StoreCall(level, ms) == StoreEffect(level, ms) /\ last' = StoreObserved(level, ms)

\* unsafeEvaluate with the superset test turned around: an aggregate that
\* holds every bit of the best one is scored 0.
unsafeEvaluateSupersetTurned(mm, vl, sp) ==
    LET ms == sp.ms
        level == sp.level
        toReceive == Size(level)
        has == level \in DOMAIN mm
        ms2 == mm[level]
        withIndiv == Or(ms.bs, vl[level])
        c1 == Cardinality(withIndiv)
        overlap == IntersectionCardinality(ms.bs, ms2.bs) # 0
        addedSigs == IF ~has THEN c1 ELSE IF overlap THEN c1 - Card(ms2) ELSE c1
        existingSigs == IF has /\ ~overlap THEN Card(ms2) ELSE 0
    IN IF has /\ toReceive = Card(ms2) THEN 0
       ELSE IF Individual(sp) /\ sp.origin \in vl[level] THEN 0
       ELSE IF has /\ ~Individual(sp) /\ IsSuperSet(ms.bs, ms2.bs) THEN 0
       ELSE IF addedSigs <= 0 THEN (IF Individual(sp) THEN 1 ELSE 0)
       ELSE IF addedSigs + existingSigs = toReceive THEN 1000000 - level
       ELSE 30000 - level * 100 + addedSigs

\* unsafeEvaluate that counts the best signature twice when the incoming one
\* can be merged with it.
unsafeEvaluateDoubleCount(mm, vl, sp) ==
    LET ms == sp.ms
        level == sp.level
        toReceive == Size(level)
        has == level \in DOMAIN mm
        ms2 == mm[level]
        withIndiv == Or(ms.bs, vl[level])
        c1 == Cardinality(withIndiv)
        overlap == IntersectionCardinality(ms.bs, ms2.bs) # 0
        addedSigs == IF ~has THEN c1 ELSE IF overlap THEN c1 - Card(ms2) ELSE c1 + Card(ms2)
        existingSigs == IF has /\ ~overlap THEN Card(ms2) ELSE 0
    IN IF has /\ toReceive = Card(ms2) THEN 0
       ELSE IF Individual(sp) /\ sp.origin \in vl[level] THEN 0
       ELSE IF has /\ ~Individual(sp) /\ IsSuperSet(ms2.bs, ms.bs) THEN 0
       ELSE IF addedSigs <= 0 THEN (IF Individual(sp) THEN 1 ELSE 0)
       ELSE IF addedSigs + existingSigs = toReceive THEN 1000000 - level
       ELSE 30000 - level * 100 + addedSigs

\* unsafeEvaluate without the test on the added signatures and without the
\* base of the last score.
unsafeEvaluateUnfloored(mm, vl, sp) ==
    LET ms == sp.ms
        level == sp.level
        toReceive == Size(level)
        has == level \in DOMAIN mm
        ms2 == mm[level]
        withIndiv == Or(ms.bs, vl[level])
        c1 == Cardinality(withIndiv)
        overlap == IntersectionCardinality(ms.bs, ms2.bs) # 0
        addedSigs == IF ~has THEN c1 ELSE IF overlap THEN c1 - Card(ms2) ELSE c1
        existingSigs == IF has /\ ~overlap THEN Card(ms2) ELSE 0
    IN IF has /\ toReceive = Card(ms2) THEN 0
       ELSE IF Individual(sp) /\ sp.origin \in vl[level] THEN 0
       ELSE IF has /\ ~Individual(sp) /\ IsSuperSet(ms2.bs, ms.bs) THEN 0
       ELSE IF addedSigs + existingSigs = toReceive THEN 1000000 - level
       ELSE addedSigs - level * 100

\* unsafeEvaluate with the sign of the added signatures slipped in the last score.
unsafeEvaluateSlip(mm, vl, sp) ==
    LET ms == sp.ms
        level == sp.level
        toReceive == Size(level)
        has == level \in DOMAIN mm
        ms2 == mm[level]
        withIndiv == Or(ms.bs, vl[level])
        c1 == Cardinality(withIndiv)
        overlap == IntersectionCardinality(ms.bs, ms2.bs) # 0
        addedSigs == IF ~has THEN c1 ELSE IF overlap THEN c1 - Card(ms2) ELSE c1
        existingSigs == IF has /\ ~overlap THEN Card(ms2) ELSE 0
    IN IF has /\ toReceive = Card(ms2) THEN 0
       ELSE IF Individual(sp) /\ sp.origin \in vl[level] THEN 0
       ELSE IF has /\ ~Individual(sp) /\ IsSuperSet(ms2.bs, ms.bs) THEN 0
       ELSE IF addedSigs <= 0 THEN (IF Individual(sp) THEN 1 ELSE 0)
       ELSE IF addedSigs + existingSigs = toReceive THEN 1000000 - level
       ELSE 30000 - level * 100 - addedSigs

\* unsafeEvaluate: the score of an incoming signature.
unsafeEvaluate(mm, vl, sp) ==
    LET ms == sp.ms
        level == sp.level
        toReceive == Size(level)
        has == level \in DOMAIN mm
        ms2 == mm[level]
        withIndiv == Or(ms.bs, vl[level])
        c1 == Cardinality(withIndiv)
        overlap == IntersectionCardinality(ms.bs, ms2.bs) # 0
        addedSigs == IF ~has THEN c1 ELSE IF overlap THEN c1 - Card(ms2) ELSE c1
        existingSigs == IF has /\ ~overlap THEN Card(ms2) ELSE 0
    IN IF has /\ toReceive = Card(ms2) THEN 0
       ELSE IF Individual(sp) /\ sp.origin \in vl[level] THEN 0
       ELSE IF has /\ ~Individual(sp) /\ IsSuperSet(ms2.bs, ms.bs) THEN 0
       ELSE IF addedSigs <= 0 THEN (IF Individual(sp) THEN 1 ELSE 0)
       ELSE IF addedSigs + existingSigs = toReceive THEN 1000000 - level
       ELSE 30000 - level * 100 + addedSigs

\* replaceStore.Evaluate: the score under the store's lock; it panics on a
\* negative score.
Evaluate(sp) == unsafeEvaluate(m, indivSigsVerified, sp)

(***************************************************************************)
(* The store alone: any sequence of Store calls with verified signatures;  *)
(* Evaluate reads the state and changes nothing.                           *)
(***************************************************************************)
Origins == 0 .. (RegistrySize - 1)

\* A verified multi-signature of a level: at least one contributor, the bitset
\* of the level's size, the signature of exactly these contributors.
VerifiedOf ==
    [level \in Levels |->
        {MultiSig(Size(level), bs, GoodSig(bs)) : bs \in SUBSET Positions(level) \ {{}}}]

Verified(level) == VerifiedOf[level]

\* The incoming signatures of a level (their signatures are not looked at by Evaluate).
IncomingOf ==
    [level \in Levels |->
        {IncomingSig(o, level, MultiSig(Size(level), bs, GoodSig(bs))) :
            o \in Origins, bs \in SUBSET Positions(level)}]

Incoming(level) == IncomingOf[level]

(***************************************************************************)
(* binomialPartitioner.CombineFull and replaceStore.FullSignature.         *)
(***************************************************************************)
\* A nil *MultiSignature.
NilMultiSig == [len |-> -1, bs |-> {}, sig |-> EmptySignature]

RangeOf == [level \in Levels |-> rangeLevel(OwnId, level)]

\* The slice the store builds by ranging over its map: the stored levels in
\* some order.  Orders is every order the map can yield, Ascending one of them.
Orders(levels) ==
    {o \in [1 .. Cardinality(levels) -> levels] : \A i, j \in DOMAIN o : i # j => o[i] # o[j]}

Ascending(levels) ==
    [i \in 1 .. Cardinality(levels) |->
        CHOOSE k \in levels : Cardinality({j \in levels : j < k}) = i - 1]

\* The combineBitSet closures of Combine and CombineFull, with the combination
\* of the signatures combineSize makes next to them: every bit of the bitset
\* of s is written at min + i, set or cleared.
combineBitSet(acc, s, min) ==
    [acc EXCEPT !.bs = (@ \ {min + i : i \in 0 .. (s.len - 1)}) \cup {min + i : i \in s.bs},
                !.sig = Combine(@, s.sig)]

\* combineSize with a combineBitSet that forgets the offset of the level.
RECURSIVE combineSizeFlat(_, _, _, _, _)
combineSizeFlat(mm, sigs, i, acc, base) ==
    IF i > Len(sigs) THEN acc
    ELSE combineSizeFlat(mm, sigs, i + 1, combineBitSet(acc, mm[sigs[i]], 0), base)

\* combineSize from the i-th signature of sigs (a sequence of levels of mm) on,
\* with a combineBitSet writing at min(rangeLevel) - base.
RECURSIVE combineSize(_, _, _, _, _)
combineSize(mm, sigs, i, acc, base) ==
    IF i > Len(sigs) THEN acc
    ELSE combineSize(mm, sigs, i + 1,
                     combineBitSet(acc, mm[sigs[i]], RangeOf[sigs[i]][1] - base), base)

\* A bit written outside the bitset is not stored.
InBitSet(ms) == [ms EXCEPT !.bs = {p \in @ : p \in 0 .. (ms.len - 1)}]

\* binomialPartitioner.CombineFull on the signatures of mm taken in the order
\* sigs: nil without signatures, otherwise a bitset of the size of the registry.
CombineFullIn(mm, sigs) ==
    IF sigs = <<>> THEN NilMultiSig
    ELSE InBitSet(combineSize(mm, sigs, 1, MultiSig(RegistrySize, {}, EmptySignature), 0))

CombineFull(mm) == CombineFullIn(mm, Ascending(DOMAIN mm))

\* The positions Combine writes for the signatures of mm when the bitset
\* starts at base: every bit of every signature is written, set or not.
SetCalls(mm, base) ==
    UNION {{RangeOf[k][1] - base + i : i \in 0 .. (mm[k].len - 1)} : k \in DOMAIN mm}

\* binomialPartitioner.Combine: nil when there is no signature or one of them
\* is above the level; otherwise the bitset spans rangeLevelInverse(level).
\* A write outside the bitset is recorded in outside: what the bitset does
\* with it (drop the bit, or fail) is not fixed by the partitioner.
binomialCombine(mm, level) ==
    IF DOMAIN mm = {} \/ \E k \in DOMAIN mm : k > level
    THEN [ms |-> NilMultiSig, outside |-> FALSE]
    ELSE LET global == rangeLevelInverse(OwnId, level)
             len == global[2] - global[1]
         IN [ms |-> InBitSet(combineSize(mm, Ascending(DOMAIN mm), 1,
                                         MultiSig(len, {}, EmptySignature), global[1])),
             outside |-> \E p \in SetCalls(mm, global[1]) : p \notin 0 .. (len - 1)]

\* replaceStore.Combined: the signatures of the levels up to level, combined
\* at level + 1 unless level is already the last one.
CombinedOf(mm, level) ==
    LET sigs == [k \in {j \in DOMAIN mm : j <= level} |-> mm[k]]
    IN binomialCombine(sigs, IF level < MaxLevel THEN level + 1 ELSE level)

Combined(level) == CombinedOf(m, level)

FullSignature == CombineFull(m)

(***************************************************************************)
(* Signatures arriving from the network and their verification.            *)
(***************************************************************************)

\* deathPillPair = sigPair{-1, 121, nil}
deathPillPair == [origin |-> -1, level |-> 121, ms |-> NilMultiSig]

\* A signature in which some aggregated share is not genuine.
ForgedSig(bs) == [valid |-> FALSE, c |-> SetToBag(bs)]

\* The bitsets peers send for a level: the whole candidate set of a level below
\* the last one, each half of the candidate set of the last level.
NetBitSets(level) ==
    IF level < MaxLevel THEN {Positions(level)}
    ELSE {0 .. ((Size(level) \div 2) - 1), (Size(level) \div 2) .. (Size(level) - 1)}

\* The peer a packet of a level comes from.
Sender(level) == RangeOf[level][1]

\* The signatures the network delivers: genuine ones, a forged one covering the
\* level below the last one, and a genuine one of the last level whose bitset
\* has the length of the level below.
NetSigs ==
    UNION {{IncomingSig(Sender(l), l, MultiSig(Size(l), bs, GoodSig(bs))) :
                bs \in NetBitSets(l)} : l \in 1 .. MaxLevel}
    \cup {IncomingSig(Sender(MaxLevel - 1), MaxLevel - 1,
                      MultiSig(Size(MaxLevel - 1), Positions(MaxLevel - 1),
                               ForgedSig(Positions(MaxLevel - 1))))}
    \cup {IncomingSig(Sender(MaxLevel), MaxLevel,
                      MultiSig(Size(MaxLevel - 1), Positions(MaxLevel - 1),
                               GoodSig(Positions(MaxLevel - 1))))}

\* MultiSignature.MarshalBinary and Unmarshal: the wire form carries the bit
\* length, the set bits and the signature; anything else fails to unmarshal.
Marshal(ms) == <<"multisig", ms.len, ms.bs, ms.sig>>

Garbage == <<"garbage">>

Unmarshal(buff) ==
    IF buff[1] = "multisig"
    THEN [err |-> FALSE, ms |-> MultiSig(buff[2], buff[3], buff[4])]
    ELSE [err |-> TRUE, ms |-> NilMultiSig]

\* A Packet of the network.
Packet(origin, level, multiSig) == [origin |-> origin, level |-> level, multiSig |-> multiSig]

PacketOf(sp) == Packet(sp.origin, sp.level, Marshal(sp.ms))

\* The packets carrying the signatures of the network.
NetPackets == {PacketOf(sp) : sp \in NetSigs}

\* Packets the node must refuse: an origin beyond the registry, a level above
\* the last one, level 0, and a multi-signature that does not unmarshal.
BadPackets ==
    LET some == CHOOSE sp \in NetSigs : sp.level = 1
    IN {Packet(RegistrySize, 1, Marshal(some.ms)),
        Packet(Sender(1), MaxLevel + 1, Marshal(some.ms)),
        Packet(Sender(1), 0, Marshal(some.ms)),
        Packet(Sender(1), 1, Garbage)}

\* verifySignature without the check of the signature against the aggregate key.
verifySignatureLengthOnly(pair) ==
    /\ pair.level \in Levels
    /\ pair.ms.len = Size(pair.level)

\* verifySignature returns nil: the level has identities, the bit length is the
\* number of identities of the level, and the signature verifies under the
\* aggregate of the public keys of the set bits.
verifySignature(pair) ==
    /\ pair.level \in Levels
    /\ pair.ms.len = Size(pair.level)
    /\ pair.ms.sig.valid
    /\ pair.ms.sig.c = SetToBag(pair.ms.bs)

(***************************************************************************)
(* evaluatorProcessing (processing.go).                                    *)
(***************************************************************************)
\* The locals of readTodos outside a pass.
NoScan == [i |-> 0, newTodos |-> <<>>, best |-> <<>>, bestMark |-> 0, marks |-> <<>>]

NoStats == [sigCheckedCt |-> 0, sigQueueSize |-> 0, sigSuppressed |-> 0]

\* SigEvaluator.Evaluate: Evaluator1 or EvaluatorStore.
Mark(pair) == IF evaluator = "one" THEN 1 ELSE Evaluate(pair)

\* evaluatorProcessing.Add, under the lock of f.cond.
Add(sp) ==
    /\ pc # "scan"
    /\ todos' = Append(todos, sp)

\* A test that never recognises the death pill.
isDeathPillNever(pair) == FALSE

\* The test of readTodos on each pair: *pair == deathPillPair.
isDeathPill(pair) == pair = deathPillPair

\* The body of the loop of readTodos for a pair with a signature: a pair with a
\* mark above the best mark so far becomes best and the former best goes back to
\* the list, a pair with another positive mark goes back to the list, a pair
\* with a mark of 0 is left out.
readTodosKeepsLowest(sc, pair, mark) ==
    LET next == [sc EXCEPT !.i = @ + 1, !.marks = Append(@, [sp |-> pair, mark |-> mark])]
    IN IF mark <= 0 THEN next
       ELSE IF sc.best # <<>> /\ mark >= sc.bestMark
       THEN [next EXCEPT !.newTodos = Append(@, pair)]
       ELSE [next EXCEPT !.newTodos = @ \o sc.best, !.best = <<pair>>, !.bestMark = mark]

readTodosStep(sc, pair, mark) ==
    LET next == [sc EXCEPT !.i = @ + 1, !.marks = Append(@, [sp |-> pair, mark |-> mark])]
    IN IF mark <= 0 THEN next
       ELSE IF mark <= sc.bestMark
       THEN [next EXCEPT !.newTodos = Append(@, pair)]
       ELSE [next EXCEPT !.newTodos = @ \o sc.best, !.best = <<pair>>, !.bestMark = mark]

\* The statistics of readTodos after a pass.
countBestAsSuppressed(st, previousLen, newLen, found) ==
    [sigSuppressed |-> st.sigSuppressed + (previousLen - newLen),
     sigCheckedCt |-> st.sigCheckedCt + (IF found THEN 1 ELSE 0),
     sigQueueSize |-> st.sigQueueSize + (IF found THEN newLen ELSE 0)]

readTodosStats(st, previousLen, newLen, found) ==
    [sigSuppressed |-> st.sigSuppressed + (previousLen - newLen) - (IF found THEN 1 ELSE 0),
     sigCheckedCt |-> st.sigCheckedCt + (IF found THEN 1 ELSE 0),
     sigQueueSize |-> st.sigQueueSize + (IF found THEN newLen ELSE 0)]

\* readTodos, one iteration of the loop over f.todos at a time.  The first
\* iteration starts when the list is not empty and takes the lock, which is
\* held until the pass is over.  On the death pill readTodos returns true and
\* processStep closes f.out and stops the loop.  After the last iteration the
\* list is replaced, the statistics are updated and best, when there is one,
\* is handed to verifyAndPublish.
readTodos ==
    /\ ~crashed
    /\ \/ pc = "wait" /\ todos # <<>>
       \/ pc = "scan"
    /\ LET sc == IF pc = "wait" THEN [NoScan EXCEPT !.i = 1] ELSE scan
           pair == todos[sc.i]
           after == IF pair.ms = NilMultiSig THEN [sc EXCEPT !.i = @ + 1]
                    ELSE readTodosStep(sc, pair, Mark(pair))
           found == after.best # <<>>
       IN IF isDeathPill(pair)
          THEN /\ pc' = "exit"
               /\ outClosed' = TRUE
               /\ scan' = NoScan
               /\ UNCHANGED <<todos, stats>>
          ELSE IF after.i <= Len(todos)
          THEN /\ pc' = "scan"
               /\ scan' = after
               /\ UNCHANGED <<todos, stats, outClosed>>
          ELSE /\ todos' = after.newTodos
               /\ stats' = readTodosStats(stats, Len(todos), Len(after.newTodos), found)
               /\ pc' = IF found THEN "verify" ELSE "wait"
               /\ scan' = IF found THEN after ELSE NoScan
               /\ UNCHANGED outClosed
    /\ UNCHANGED <<storeVars, last, out, confVars, lockVars, levelVars, handelVars, histVars>>

\* verifyAndPublish: with a positive sigSleepTime the verification is replaced
\* by a sleep and err is nil.  The send blocks while the channel is full.
verifyAndPublish ==
    /\ ~crashed
    /\ pc = "verify"
    /\ LET sp == scan.best[1]
           err == IF sigSleepTime <= 0 THEN ~verifySignature(sp) ELSE FALSE
       IN IF err
          THEN /\ dropped' = Append(dropped, sp)
               /\ UNCHANGED <<out, published>>
          ELSE /\ Len(out) < VerifiedCap
               /\ out' = Append(out, sp)
               /\ published' = Append(published, sp)
               /\ UNCHANGED dropped
    /\ pc' = "wait"
    /\ scan' = NoScan
    /\ UNCHANGED <<storeVars, last, todos, outClosed, stats, confVars, lockVars, levelVars, handelVars, added>>

(***************************************************************************)
(* Handel (handel.go).                                                     *)
(***************************************************************************)
\* parsePacket without the test of the level.
parsePacketAnyLevel(p) ==
    IF p.origin >= RegistrySize THEN [err |-> TRUE, ms |-> NilMultiSig]
    ELSE Unmarshal(p.multiSig)

\* parsePacket: an error for an origin beyond the registry, for a level
\* outside 1..log2(size) and for a multi-signature that does not unmarshal.
parsePacket(p) ==
    IF p.origin >= RegistrySize THEN [err |-> TRUE, ms |-> NilMultiSig]
    ELSE IF p.level < 1 \/ p.level > log2(RegistrySize) THEN [err |-> TRUE, ms |-> NilMultiSig]
    ELSE Unmarshal(p.multiSig)

\* The body of NewPacket for a node that is not done: an invalid packet is
\* logged and nothing else happens, a parsed one is handed to the processor.
NewPacketEffect(p) ==
    /\ ~crashed
    /\ hLock = <<>>
    /\ ~done
    /\ LET parsed == parsePacket(p)
           sp == IncomingSig(p.origin, p.level, parsed.ms)
       IN IF parsed.err
          THEN UNCHANGED <<todos, added>>
          ELSE /\ BagCardinality(added) < MaxAdds
               /\ Add(sp)
               /\ added' = added (+) SetToBag({sp})
    /\ UNCHANGED <<storeVars, out, outClosed, pc, scan, stats, confVars, lockVars, levelVars, handelVars,
                   published, dropped>>

\* NewPacket: the packet listener of the node.
NewPacket(p) ==
    /\ NewPacketEffect(p)
    /\ UNCHANGED last

\* NewPacket with the call and the outcome of the parsing kept in last.
NewPacketCall(p) ==
    /\ NewPacketEffect(p)
    /\ last' = [op |-> "NewPacket", p |-> p, err |-> parsePacket(p).err]

\* Handel.Stop: the processor gets the death pill, the node is done and h.out
\* is closed; closing it a second time panics.
Stop ==
    /\ ~crashed
    /\ hLock = <<>>
    /\ Add(deathPillPair)
    /\ done' = TRUE
    /\ crashed' = done
    /\ UNCHANGED <<storeVars, last, out, outClosed, pc, scan, stats, confVars, lockVars, levelVars,
                   hpc, v, hBest, final, histVars>>

\* checkFinalSignature: what is sent on h.out, as a sequence of zero or one
\* multi-signature, read after the store took the verified signature.
checkFinalSignatureLoose(sig) ==
    IF done THEN <<>>
    ELSE IF hBest = <<>> \/ Card(sig) > Card(hBest[1]) THEN <<sig>>
    ELSE <<>>

checkFinalSignatureLate(sig) ==
    IF Card(sig) <= threshold THEN <<>>
    ELSE IF done THEN <<>>
    ELSE IF hBest = <<>> \/ Card(sig) > Card(hBest[1]) THEN <<sig>>
    ELSE <<>>

checkFinalSignatureRepeat(sig) ==
    IF Card(sig) < threshold THEN <<>>
    ELSE IF done THEN <<>>
    ELSE IF hBest = <<>> \/ Card(sig) >= Card(hBest[1]) THEN <<sig>>
    ELSE <<>>

checkFinalSignature(sig) ==
    IF Card(sig) < threshold THEN <<>>
    ELSE IF done THEN <<>>
    ELSE IF hBest = <<>> \/ Card(sig) > Card(hBest[1]) THEN <<sig>>
    ELSE <<>>

\* rangeOnVerified: a signature is received from the Verified channel and stored.
Receive ==
    /\ ~crashed
    /\ hpc = "recv"
    /\ out # <<>>
    /\ v' = <<Head(out)>>
    /\ out' = Tail(out)
    /\ StoreEffect(Head(out).level, Head(out).ms)
    /\ hpc' = "actors"
    /\ UNCHANGED <<last, todos, outClosed, pc, scan, stats, confVars, lockVars, levelVars, hBest, final, done,
                   crashed, histVars>>

\* rangeOnVerified: the loop ends when the channel is closed and empty.
ReceiveClosed ==
    /\ ~crashed
    /\ hpc = "recv"
    /\ out = <<>>
    /\ outClosed
    /\ hpc' = "exit"
    /\ UNCHANGED <<storeVars, last, procVars, confVars, lockVars, levelVars, v, hBest, final, done, crashed, histVars>>

(***************************************************************************)
(* The levels of the node (handel.go): Level, createLevels, sendUpdate,    *)
(* periodicUpdate and checkCompletedLevel.  What a call sends is a         *)
(* sequence of [level, ms, to] records, one for each call of sendTo.       *)
(***************************************************************************)
\* Config.LevelTimeout, in update periods, and Config.CandidateCount.
LevelTimeout == 1

CandidateCount == 2

\* Bound: the periodicUpdate calls of a run.
MaxTicks == 4

\* Registry.Identities(min, max) for the range of a level: the identifiers from
\* min to max - 1, in this order.
IdentitiesOf(level) == [i \in 1 .. Size(level) |-> RangeOf[level][1] + i - 1]

\* NewLevel: the first level is started and completed from the start.
NewLevel(id, nodes) ==
    [id |-> id, nodes |-> nodes, started |-> (id = 1), completed |-> (id = 1),
     finished |-> FALSE, pos |-> 0, sent |-> 0, currentBestSize |-> 0]

\* createLevels: one Level value for each level from 1 to log2(size), with
\* all the identities of the level as nodes.
createLevels == [id \in 1 .. MaxLevel |-> NewLevel(id, IdentitiesOf(id))]

\* Level.PickNextAt on the Level c: the identities picked and c after the call.
\* The loop takes size nodes from c.pos on and wraps after the last one.
PickNextAt(c, count) ==
    LET n == Len(c.nodes)
        size == IF count < n THEN count ELSE n
        sent == c.sent + size
    IN [res |-> [i \in 1 .. size |-> c.nodes[((c.pos + i - 1) % n) + 1]],
        level |-> [c EXCEPT !.pos = IF size = 0 THEN c.pos ELSE (c.pos + size) % n,
                            !.sent = sent,
                            !.finished = c.finished \/ sent >= n]]

\* Level.updateBestSig on the Level l: whether the level is completed by sig,
\* and l after the call.
updateBestSig(l, sig) ==
    IF l.completed \/ l.currentBestSize >= Card(sig)
    THEN [completed |-> FALSE, level |-> l]
    ELSE [completed |-> Card(sig) >= Len(l.nodes),
          level |-> [l EXCEPT !.currentBestSize = Card(sig),
                              !.finished = FALSE,
                              !.sent = 0,
                              !.started = l.started \/ Card(sig) >= Len(l.nodes)]]

\* sendUpdate(l, count): l is a Level value, a copy of its own for the call.
\* Nothing is sent for a level that is not started or is finished; otherwise
\* Combined(l.id - 1) goes to the nodes PickNextAt picks on the copy.
sendUpdate(mm, l, count) ==
    IF ~l.started \/ l.finished THEN <<>>
    ELSE <<[level |-> l.id, ms |-> CombinedOf(mm, l.id - 1).ms, to |-> PickNextAt(l, count).res]>>

\* periodicUpdate at t update periods after the start, over the levels from
\* index i on.  The loop variable lvl is a copy of h.levels[i]: it is started
\* when its timeout has passed, and handed to sendUpdate.
RECURSIVE periodicUpdateFrom(_, _, _, _)
periodicUpdateFrom(mm, lvls, t, i) ==
    IF i > Len(lvls) THEN <<>>
    ELSE LET lvl == [lvls[i] EXCEPT !.started = @ \/ t >= lvls[i].id * LevelTimeout]
         IN sendUpdate(mm, lvl, 1) \o periodicUpdateFrom(mm, lvls, t, i + 1)

\* periodicUpdate with every timeout taken one update period too early.
periodicUpdateEarly(mm, lvls, t) == periodicUpdateFrom(mm, lvls, t + 1, 1)

\* periodicUpdate: the loop over all the levels.
periodicUpdate(mm, lvls, t) == periodicUpdateFrom(mm, lvls, t, 1)

\* checkCompletedLevel over the levels from index i down to the second one.
\* lvl is a copy of h.levels[i]; updateBestSig and sendUpdate work on the copy.
RECURSIVE checkCompletedLevelFrom(_, _, _)
checkCompletedLevelFrom(mm, lvls, i) ==
    IF i <= 1 THEN <<>>
    ELSE LET lvl == lvls[i]
             upd == updateBestSig(lvl, mm[lvl.id])
         IN IF lvl.completed THEN <<>>
            ELSE IF lvl.id \notin DOMAIN mm THEN checkCompletedLevelFrom(mm, lvls, i - 1)
            ELSE (IF upd.completed THEN sendUpdate(mm, upd.level, CandidateCount) ELSE <<>>)
                 \o checkCompletedLevelFrom(mm, lvls, i - 1)

checkCompletedLevel(mm, lvls) == checkCompletedLevelFrom(mm, lvls, Len(lvls))

\* sendUpdate panics when Combined returns nil.
SendPanics(sends) == \E i \in DOMAIN sends : sends[i].ms = NilMultiSig

\* What was sent so far for each level: the calls of sendTo in their order.
SentSoFar == IF last.op = "send" THEN last.sent ELSE <<>>

\* The record of a call: what it sent, and the sends so far, each with its caller.
Sent(by, sends) ==
    [op |-> "send", by |-> by, sends |-> sends,
     sent |-> SentSoFar \o [i \in DOMAIN sends |->
                               [level |-> sends[i].level, ms |-> sends[i].ms, to |-> sends[i].to,
                                by |-> by]]]

\* One periodicUpdate, under the lock of the node: the one of Start at time 0,
\* then the ones of the ticker, one update period apart, until Stop stops the
\* ticker.  The Level values of h.levels are not written: every change is
\* made on a copy.
Tick ==
    /\ ~crashed
    /\ ~done
    /\ hLock = <<>>
    /\ ticks < MaxTicks
    /\ ticks' = ticks + 1
    /\ hLevels' = hLevels
    /\ UNCHANGED tickHeld
    /\ \E sends \in {periodicUpdate(m, hLevels, ticks)} :
          /\ crashed' = SendPanics(sends)
          /\ last' = Sent("periodicUpdate", sends)
    /\ UNCHANGED <<storeVars, procVars, confVars, lockVars, hpc, v, hBest, final, done, histVars>>

\* The actors of rangeOnVerified, under the lock of the node:
\* checkCompletedLevel, which leaves h.levels as it is, then
\* checkFinalSignature.
ActorsEffect ==
    /\ ~crashed
    /\ hpc = "actors"
    /\ hLock = <<>>
    /\ \E full \in {FullSignature} : \E sent \in {checkFinalSignature(full)} :
          /\ hBest' = IF sent # <<>> THEN sent ELSE hBest
          /\ final' = final \o sent
    /\ hpc' = "recv"
    /\ v' = <<>>
    /\ UNCHANGED <<storeVars, procVars, confVars, lockVars, levelVars, done, crashed, histVars>>

Actors == ActorsEffect /\ UNCHANGED last

\* The actors, with what checkCompletedLevel sends.
ActorsSend ==
    /\ ActorsEffect
    /\ last' = Sent("checkCompletedLevel", checkCompletedLevel(m, hLevels))

\* The thresholds, the sleep times and the evaluators nodes are configured with.
Thresholds == {3}

SleepTimes == {0, 1}

Evaluators == {"store", "one"}

\* The node variables before a node exists.
NoNode ==
    /\ todos = <<>> /\ out = <<>> /\ outClosed = FALSE /\ pc = "wait"
    /\ scan = NoScan /\ stats = NoStats
    /\ hpc = "recv" /\ v = <<>> /\ hBest = <<>> /\ final = <<>>
    /\ done = FALSE /\ crashed = FALSE /\ hLock = <<>>
    /\ hLevels = createLevels /\ ticks = 0 /\ tickHeld = FALSE
    /\ added = EmptyBag /\ published = <<>> /\ dropped = <<>>

\* mySig of NewHandel: a bitset of one bit, set, with the node's own signature.
mySig == MultiSig(1, {0}, GoodSig({0}))

\* NewHandel followed by Start: the store holds the own signature at level 0,
\* the worker waits for signatures and rangeOnVerified for verified ones.
NewHandel(thresholds) ==
    /\ LET r == StoreResult(<<>>, [l \in Levels |-> {}], [l \in Levels |-> <<>>], 0, mySig)
       IN /\ m = r.m
          /\ highest = 0
          /\ indivSigsVerified = r.vl
          /\ individualSigs = r.indiv
    /\ last = NoCall
    /\ NoNode
    /\ threshold \in thresholds
    /\ sigSleepTime \in SleepTimes
    /\ evaluator \in Evaluators

InitNode == NewHandel(Thresholds)

Worker == readTodos \/ verifyAndPublish

\* rangeOnVerified handling the verified signatures.
Consumer == Receive \/ Actors

NextNode ==
    \/ \E p \in NetPackets : NewPacket(p)
    \/ Stop
    \/ Worker
    \/ Consumer
    \/ ReceiveClosed

SpecNode == InitNode /\ [][NextNode]_vars

\* A node that is not stopped, with a fairly scheduled worker and a fairly
\* scheduled verified-signature loop.
NextRun ==
    \/ \E p \in NetPackets : NewPacket(p)
    \/ Worker
    \/ Consumer

SpecRunFair == InitNode /\ [][NextRun]_vars /\ WF_vars(Worker) /\ WF_vars(Consumer)

\* The signatures that complete a node: the whole candidate set of every
\* level, and the first half of the last level.
FinalPackets ==
    {PacketOf(IncomingSig(Sender(l), l, MultiSig(Size(l), Positions(l), GoodSig(Positions(l))))) :
        l \in 1 .. MaxLevel}
    \cup {PacketOf(IncomingSig(Sender(MaxLevel), MaxLevel,
                               MultiSig(Size(MaxLevel), 0 .. ((Size(MaxLevel) \div 2) - 1),
                                        GoodSig(0 .. ((Size(MaxLevel) \div 2) - 1)))))}

\* Thresholds of a node that can complete: the one of the other nodes and the
\* whole registry.
FinalThresholds == Thresholds \cup {RegistrySize}

\* A node receiving the signatures that complete it.
NextFinal ==
    \/ \E p \in FinalPackets : NewPacket(p)
    \/ Stop
    \/ Worker
    \/ Consumer
    \/ ReceiveClosed

SpecFinal == NewHandel(FinalThresholds) /\ [][NextFinal]_vars

(***************************************************************************)
(* The node with the fifoProcessing NewHandel builds: todos is the channel *)
(* f.in, out the channel f.out, pc the position of processIncoming.        *)
(***************************************************************************)
\* The signatures NewPacket took, in the order of the calls.
AddOrder == IF last.op = "NewPacket" THEN last.order ELSE <<>>

\* NewPacket, up to its send on the incoming channel of the processor: the
\* send is made under the mutex of the node, and when the channel is full the
\* caller waits with the mutex held.
NewPacketFifoEffect(p) ==
    /\ ~crashed
    /\ hLock = <<>>
    /\ ~done
    /\ ~parsePacket(p).err
    /\ BagCardinality(added) < MaxFifoAdds
    /\ LET sp == IncomingSig(p.origin, p.level, parsePacket(p).ms)
       IN /\ added' = added (+) SetToBag({sp})
          /\ IF Len(todos) < FifoCap
             THEN todos' = Append(todos, sp) /\ UNCHANGED hLock
             ELSE hLock' = <<sp>> /\ UNCHANGED todos
    /\ UNCHANGED <<storeVars, out, outClosed, pc, scan, stats, confVars, levelVars, handelVars,
                   published, dropped>>

\* NewPacket, with the calls recorded in last.
NewPacketFifo(p) ==
    /\ NewPacketFifoEffect(p)
    /\ last' = [op |-> "NewPacket",
                order |-> Append(AddOrder, IncomingSig(p.origin, p.level, parsePacket(p).ms))]

\* Bound: the packets taken by the node whose sends are recorded.
MaxLevelAdds == 3

\* NewPacket, for the node whose sends are recorded in last.
NewPacketIn(p) ==
    /\ BagCardinality(added) < MaxLevelAdds
    /\ NewPacketFifoEffect(p)
    /\ UNCHANGED last

\* NewPacket, from its send on: the channel has room, the packet is sent and
\* the mutex released.
IncomingSend ==
    /\ ~crashed
    /\ hLock # <<>>
    /\ Len(todos) < FifoCap
    /\ todos' = Append(todos, hLock[1])
    /\ hLock' = <<>>
    /\ UNCHANGED <<storeVars, last, out, outClosed, pc, scan, stats, confVars, levelVars, handelVars,
                   histVars>>

\* processIncoming, from the receive on f.in to the send on f.out: a pair the
\* store scores 0 is skipped, a pair that does not verify is logged.
processIncoming ==
    /\ ~crashed
    /\ pc = "wait"
    /\ todos # <<>>
    /\ todos' = Tail(todos)
    /\ LET pair == Head(todos)
       IN IF Evaluate(pair) = 0
          THEN UNCHANGED <<pc, scan, dropped>>
          ELSE IF ~verifySignature(pair)
          THEN dropped' = Append(dropped, pair) /\ UNCHANGED <<pc, scan>>
          ELSE /\ pc' = "verify"
               /\ scan' = [NoScan EXCEPT !.best = <<pair>>]
               /\ UNCHANGED dropped
    /\ UNCHANGED <<storeVars, last, out, outClosed, stats, confVars, lockVars, levelVars, handelVars,
                   added, published>>

\* processIncoming: f.done is read under the mutex of the processor; the
\* verified pair is sent on f.out, which waits while the channel is full, and
\* once the processor is stopped nothing is sent and the loop ends.
processIncomingSend ==
    /\ ~crashed
    /\ pc = "verify"
    /\ IF outClosed
       THEN pc' = "exit" /\ UNCHANGED <<out, published>>
       ELSE /\ Len(out) < VerifiedCap
            /\ out' = Append(out, scan.best[1])
            /\ published' = Append(published, scan.best[1])
            /\ pc' = "wait"
    /\ scan' = NoScan
    /\ UNCHANGED <<storeVars, last, todos, outClosed, stats, confVars, lockVars, levelVars, handelVars,
                   added, dropped>>

\* The packets sent to the node with the fifo processor: those of the last two
\* levels with a bitset of the length of their level, genuine and forged.
FifoPackets ==
    {p \in NetPackets : p.level >= MaxLevel - 1 /\ Unmarshal(p.multiSig).ms.len = Size(p.level)}

InitFifo ==
    /\ NewHandel(Thresholds)
    /\ sigSleepTime = 0
    /\ evaluator = "store"

NextFifo ==
    \/ \E p \in FifoPackets : NewPacketFifo(p)
    \/ IncomingSend
    \/ processIncoming
    \/ processIncomingSend
    \/ Consumer

SpecFifo == InitFifo /\ [][NextFifo]_vars

\* The node with its levels: packets come in, verified signatures are stored
\* and the actors run, periodicUpdate is called at Start and by the ticker.
NextLevels ==
    \/ \E p \in FinalPackets : NewPacketIn(p)
    \/ IncomingSend
    \/ processIncoming
    \/ processIncomingSend
    \/ Receive
    \/ ActorsSend
    \/ Tick

SpecLevels == InitFifo /\ [][NextLevels]_vars

\* processIncoming: the range over f.in ends when the channel is closed and
\* empty.
processIncomingClosed ==
    /\ ~crashed
    /\ pc = "wait"
    /\ todos = <<>>
    /\ outClosed
    /\ pc' = "exit"
    /\ UNCHANGED <<storeVars, last, todos, out, outClosed, scan, stats, confVars, lockVars, levelVars,
                   handelVars, histVars>>

\* Handel.Stop of the node with the fifo processor, under the mutex of the
\* node: the ticker is stopped, fifoProcessing.Stop takes the mutex of the
\* processor and closes f.in and f.out (what they hold stays to be received),
\* the node is done and h.out is closed; closing it a second time panics.
StopFifo ==
    /\ ~crashed
    /\ hLock = <<>>
    /\ ~(pc = "verify" /\ Len(out) >= VerifiedCap)
    /\ outClosed' = TRUE
    /\ done' = TRUE
    /\ crashed' = done
    /\ UNCHANGED <<storeVars, last, todos, out, pc, scan, stats, confVars, lockVars, levelVars,
                   hpc, v, hBest, final, histVars>>

\* The ticker goroutine receives a tick from h.ticker.C: the ticker sends
\* ticks, after the periodicUpdate of Start, until Stop stops it.
TickTake ==
    /\ ~crashed
    /\ ~done
    /\ ~tickHeld
    /\ ticks >= 1
    /\ ticks < MaxTicks
    /\ tickHeld' = TRUE
    /\ UNCHANGED <<storeVars, last, procVars, confVars, lockVars, hLevels, ticks, handelVars, histVars>>

\* The ticker goroutine with its tick: it takes the mutex of the node and
\* calls periodicUpdate.
TickRun ==
    /\ ~crashed
    /\ tickHeld
    /\ hLock = <<>>
    /\ tickHeld' = FALSE
    /\ ticks' = ticks + 1
    /\ hLevels' = hLevels
    /\ \E sends \in {periodicUpdate(m, hLevels, ticks)} :
          /\ crashed' = SendPanics(sends)
          /\ last' = Sent("periodicUpdate", sends)
    /\ UNCHANGED <<storeVars, procVars, confVars, lockVars, hpc, v, hBest, final, done, histVars>>

\* The node with its levels, stopped at any time: packets come in, the
\* processor, rangeOnVerified and the ticker goroutine run until their loops
\* end.
NextStopLevels ==
    \/ \E p \in FinalPackets : NewPacketIn(p)
    \/ IncomingSend
    \/ processIncoming
    \/ processIncomingSend
    \/ processIncomingClosed
    \/ Receive
    \/ ActorsSend
    \/ ReceiveClosed
    \/ Tick
    \/ TickTake
    \/ TickRun
    \/ StopFifo

SpecStopLevels == InitFifo /\ [][NextStopLevels]_vars

\* evaluatorProcessing.Stop called on the processor alone: the death pill is
\* queued and the node goes on handing packets to the processor.
ProcessorStop ==
    /\ ~crashed
    /\ Cardinality({i \in DOMAIN todos : todos[i] = deathPillPair}) < MaxStops
    /\ Add(deathPillPair)
    /\ UNCHANGED <<storeVars, last, out, outClosed, pc, scan, stats, confVars, lockVars, levelVars, handelVars,
                   histVars>>

\* The reader of the Verified channel, up to the end of its loop.
Drain == Consumer \/ ReceiveClosed

\* The processor stopped while packets of the levels below the last one keep
\* coming; the worker and the reader
\* of the Verified channel are goroutines that run whenever they can.
NextStop ==
    \/ \E p \in {q \in NetPackets : q.level < MaxLevel} : NewPacket(p)
    \/ ProcessorStop
    \/ Worker
    \/ Drain

SpecStopFair == InitNode /\ [][NextStop]_vars /\ WF_vars(Worker) /\ WF_vars(Drain)

\* The node receiving any packet, well formed or not, each call recorded.
NextIngress ==
    \/ \E p \in NetPackets \cup BadPackets : NewPacketCall(p)
    \/ Worker
    \/ Consumer

SpecIngress == InitNode /\ [][NextIngress]_vars

\* Packets at the edges of what parsePacket tests: the origins around 0 and
\* around the size of the registry (Packet.Origin is an int32), the levels
\* around 1 and around the last level, each with the individual signature of
\* the first identity of its level.
EdgeOrigins == {-1, 0, RegistrySize - 1, RegistrySize}

EdgeLevels == {0, 1, MaxLevel, MaxLevel + 1}

EdgePackets ==
    {Packet(origin, level, Marshal(MultiSig(Size(IF level \in 1 .. MaxLevel THEN level ELSE 1), {0},
                                            GoodSig({0})))) :
        origin \in EdgeOrigins, level \in EdgeLevels}

\* The node with the store evaluator receiving the packets of the edges, each
\* call recorded.
NextEdges ==
    \/ \E p \in EdgePackets : NewPacketCall(p)
    \/ Worker
    \/ Consumer

SpecEdges == InitFifo /\ [][NextEdges]_vars

StoreAny ==
    /\ \E level \in Levels : \E ms \in Verified(level) : Store(level, ms)
    /\ UNCHANGED nodeVars

StoreCallAny ==
    /\ \E level \in Levels : \E ms \in Verified(level) : StoreCall(level, ms)
    /\ UNCHANGED nodeVars

\* A store of its own: the node's processor and loop are not started.
InitStore ==
    /\ StoreInit /\ last = NoCall
    /\ NoNode
    /\ threshold = RegistrySize /\ sigSleepTime = 0 /\ evaluator = "store"

\* Store calls, looking at the store only.
SpecStore == InitStore /\ [][StoreAny]_vars

\* Store calls, with what each call returned.
SpecStoreCalls == InitStore /\ [][StoreCallAny]_vars

(***************************************************************************)
(* The partitioner alone: rangeLevel called for any registry whose size is *)
(* a power of two, any identifier of the registry and any level.           *)
(***************************************************************************)
\* Bound: the registries have at most 2^MaxBitSize identities.
MaxBitSize == 4

RegistrySizes == {pow2(k) : k \in 1 .. MaxBitSize}

rangeLevelCall(size, id, level) ==
    /\ last' = [op |-> "rangeLevel", size |-> size, id |-> id, level |-> level,
                range |-> rangeLevelOf(size, id, level)]
    /\ UNCHANGED <<storeVars, nodeVars>>

rangeLevelAny ==
    \E size \in RegistrySizes : \E id \in 0 .. (size - 1) : \E level \in 0 .. log2(size) :
        rangeLevelCall(size, id, level)

SpecPartitioner == InitStore /\ [][rangeLevelAny]_vars

(***************************************************************************)
(* The store: Best, Store and Evaluate.                                    *)
(***************************************************************************)
\* Is there a best at the level that has a contributor in common with bs?
OverlapsBest(level, bs) == level \in DOMAIN m /\ bs \cap m[level].bs # {}

\* The incoming signatures of the level of sp2 whose bitset is a strict subset of
\* the bitset of sp2.
StrictlyBelow(sp2) ==
    {IncomingSig(o, sp2.level, MultiSig(sp2.ms.len, bs, GoodSig(bs))) :
        o \in Origins, bs \in (SUBSET sp2.ms.bs) \ {sp2.ms.bs}}

\* C1: at every level the cardinality of Best(l) never decreases from one Store
\* call to the next, an existing Best(l) stays, and the cardinality never exceeds
\* Size(l).
C1_BestCardinalityMonotone ==
    [][/\ \A l \in DOMAIN m : l \in DOMAIN m' /\ Card(m'[l]) >= Card(m[l])
       /\ \A l \in DOMAIN m' : Card(m'[l]) <= Size(l)]_vars

\* A best of three contributors has been replaced or merged into a full level of four.
C1_Witness ==
    /\ 3 \in DOMAIN m /\ Card(m[3]) = Size(3)
    /\ 2 \in DOMAIN m /\ Card(m[2]) = 1

\* C2: every individual signature once given to Store (it is kept in
\* individualSigs) has its bit set in the best of its level, now and after
\* every later Store.
C2_IndividualsStayInBest ==
    \A l \in Levels : \A i \in DOMAIN individualSigs[l] :
        l \in DOMAIN m /\ i \in m[l].bs

\* C8: Store returns accepted = true exactly when it changed Best(level).
C8_AcceptedIffChanged ==
    last.op = "Store" => (last.accepted <=> last.changed)

\* C9: after Store(l, ms), an incoming signature with the same level and bitset,
\* whatever its origin, has score 0.
C9_StoredScoresZero ==
    last.op = "Store" =>
        \A o \in Origins :
            Evaluate(IncomingSig(o, last.level,
                                 MultiSig(Size(last.level), last.bs, GoodSig(last.bs)))) = 0

\* C10 as stated: for two incoming signatures of a level, the bitset of the first
\* a strict subset of the bitset of the second, the first scores at most the
\* second, or both score 0.
C10_EvaluateMonotone ==
    \A l \in Levels : \A sp2 \in Incoming(l) : \A sp1 \in StrictlyBelow(sp2) :
        \/ Evaluate(sp1) <= Evaluate(sp2)
        \/ Evaluate(sp1) = 0 /\ Evaluate(sp2) = 0

\* C10 amended: the same, for a first signature that is not an individual
\* signature whose bit is already in Best(l), and when the second signature
\* overlaps Best(l) only if the first does.
C10_EvaluateMonotoneAmended ==
    \A l \in Levels : \A sp2 \in Incoming(l) : \A sp1 \in StrictlyBelow(sp2) :
        (/\ ~(Individual(sp1) /\ OverlapsBest(l, sp1.ms.bs))
         /\ OverlapsBest(l, sp2.ms.bs) => OverlapsBest(l, sp1.ms.bs)) =>
            Evaluate(sp1) <= Evaluate(sp2)

\* Level 3 holds two of its four contributors: a disjoint individual signature
\* scores less than the disjoint pair that completes the level.
C10_Witness ==
    /\ 3 \in DOMAIN m /\ m[3].bs = {0, 1}
    /\ Evaluate(IncomingSig(0, 3, MultiSig(4, {2}, GoodSig({2})))) = 30000 - 300 + 1
    /\ Evaluate(IncomingSig(0, 3, MultiSig(4, {2, 3}, GoodSig({2, 3})))) = 1000000 - 3

(***************************************************************************)
(* The processor and the node: delivery, selection, final signatures.      *)
(***************************************************************************)
\* The multi-signature is what the scheme accepts for the level: its bitset has
\* the length of the level's candidate set and its signature is the aggregate
\* of one genuine share of each identity whose bit is set.
Authentic(level, ms) ==
    /\ ms.len = Size(level)
    /\ ms.sig.valid
    /\ ms.sig.c = SetToBag(ms.bs)

\* Every signature sent on the Verified channel was passed to Add and is
\* authentic, no signature with a logged verification error is one that was
\* sent, and the store holds no forged share and no bitset of a wrong length.
OnlyVerifiedDelivered ==
    /\ \A k \in DOMAIN published :
          /\ BagIn(published[k], added)
          /\ Authentic(published[k].level, published[k].ms)
    /\ \A k \in DOMAIN dropped : \A j \in DOMAIN published : dropped[k] # published[j]
    /\ \A l \in DOMAIN m : m[l].sig.valid /\ m[l].len = Size(l)

C4_FinalMeetsThreshold == \A k \in DOMAIN final : Card(final[k]) >= threshold

\* Two verified signatures were handled and one final signature was sent.
C4_Witness == Len(final) = 1 /\ Len(published) = 2 /\ out = <<>> /\ hpc = "recv"

\* C5: the multi-signatures sent on the FinalSignatures channel are strictly
\* increasing in cardinality, each has more contributions than the one before.
C5_FinalStrictlyIncreasing ==
    \A k \in DOMAIN final : k + 1 \in DOMAIN final => Card(final[k]) < Card(final[k + 1])

\* Two final signatures were sent and a later verified signature added nothing.
C5_Witness == Len(final) = 2 /\ Len(published) = 3 /\ out = <<>> /\ hpc = "recv"

\* C6: at each selection pass the item taken for verification has a positive
\* score that is greater than or equal to the score computed in that pass for
\* every other pending item, in the first pass and in the passes made after
\* earlier items were verified.
C6_SelectionTakesMaximum ==
    pc = "verify" =>
        /\ scan.best # <<>>
        /\ \E k \in DOMAIN scan.marks :
              /\ scan.marks[k].sp = scan.best[1]
              /\ scan.marks[k].mark > 0
              /\ \A j \in DOMAIN scan.marks : scan.marks[j].mark <= scan.marks[k].mark

\* A pass over three pending items with three different scores took the second
\* one, the one with the highest score.
C6_Witness ==
    /\ pc = "verify"
    /\ Len(scan.marks) = 3
    /\ scan.marks[1].mark < scan.marks[3].mark
    /\ scan.marks[3].mark < scan.marks[2].mark
    /\ scan.best = <<scan.marks[2].sp>>

\* The pair is a signature, not the death pill.
IsSignature(sp) == sp # deathPillPair

\* Every signature passed to Add is pending, was taken for verification or was
\* counted as suppressed, and every signature taken for verification is being
\* verified, was published or was dropped with its verification error logged.
Recorded ==
    /\ Len(SelectSeq(todos, IsSignature)) + stats.sigCheckedCt + stats.sigSuppressed
            = BagCardinality(added)
    /\ stats.sigCheckedCt
            = Len(published) + Len(dropped) + (IF pc = "verify" THEN 1 ELSE 0)

\* C7: with a fairly scheduled worker and a consumer that drains the Verified
\* channel, every signature a selection pass took as the pending item with the
\* highest positive score is eventually published on the Verified channel or
\* dropped, and at every moment the counters account for every signature
\* passed to Add.
C7_SelectedEventuallyResolved ==
    /\ []Recorded
    /\ (pc = "verify") ~> (pc # "verify")

\* Three signatures were taken for verification, one was dropped and the
\* second of the two others was published after the consumer made room for it.
C7_Witness ==
    /\ Len(published) = 2
    /\ Len(dropped) = 1
    /\ stats.sigCheckedCt = 3
    /\ pc = "wait"

(***************************************************************************)
(* Scores of 0, ranges, combined signatures, stopping, order.              *)
(***************************************************************************)
\* C11: a score of 0 is definitive: an incoming signature Evaluate scores 0 in
\* a store state scores 0 in every store state reached by further Store calls.
C11_ZeroIsDefinitive ==
    [][\A l \in Levels : \A sp \in Incoming(l) :
          Evaluate(sp) = 0 => unsafeEvaluate(m', indivSigsVerified', sp) = 0]_vars

\* The identifiers of a range [min, max[.
Ids(range) == range[1] .. (range[2] - 1)

\* C12: for a registry whose size N is a power of two and any own identifier,
\* the candidate ranges of the levels 1..log2(N) are pairwise disjoint, cover
\* [0, N) together with the own identifier, and the level l has 2^(l-1)
\* candidates.
C12_RangesPartitionRegistry ==
    last.op = "rangeLevel" =>
        LET N == last.size
            id == last.id
            R(l) == Ids(rangeLevelOf(N, id, l))
            ls == 1 .. log2(N)
        IN /\ \A l \in ls : Cardinality(R(l)) = pow2(l - 1)
           /\ \A l \in ls : rangeLevelOf(N, id, l)[2] - rangeLevelOf(N, id, l)[1] = pow2(l - 1)
           /\ \A l1, l2 \in ls : l1 # l2 => R(l1) \cap R(l2) = {}
           /\ \A l \in ls : id \notin R(l)
           /\ UNION {R(l) : l \in ls} \cup {id} = 0 .. (N - 1)
           /\ (last.level >= 1 => Ids(last.range) = R(last.level))

\* rangeLevel was called for the last level of a registry of 16 identities by
\* an identifier of the upper half.
C12_Witness ==
    /\ last.op = "rangeLevel"
    /\ last.size = 16 /\ last.id = 11 /\ last.level = 4
    /\ last.range = <<0, 8>>

\* The summed cardinality of the signatures stored at the given levels.
RECURSIVE SumCard(_, _)
SumCard(mm, levels) ==
    IF levels = {} THEN 0
    ELSE LET k == CHOOSE l \in levels : TRUE
         IN Card(mm[k]) + SumCard(mm, levels \ {k})

\* The levels up to level that hold a signature.
StoredUpTo(level) == {k \in DOMAIN m : k <= level}

\* C13: for every level l from 0 to the last one, Combined(l) is nil when no
\* level up to l holds a signature and otherwise carries every contribution
\* of the levels 0..l: no bit is written outside its bitset and its
\* cardinality is the sum of the cardinalities of the stored Best(k), k <= l.
C13_CombinedCoversLevels ==
    \A l \in Levels :
        LET c == Combined(l)
        IN IF StoredUpTo(l) = {} THEN c.ms = NilMultiSig
           ELSE /\ ~c.outside
                /\ Card(c.ms) = SumCard(m, StoredUpTo(l))

\* The identities contributing to the stored signatures: the own identifier
\* for level 0, the identity at local index i of the candidate set of level
\* k for every set bit i of Best(k).
Contributors ==
    UNION {{g \in Ids(RangeOf[k]) : (g - RangeOf[k][1]) \in m[k].bs} : k \in DOMAIN m}

\* What C14 asks of a result of FullSignature.
IsFullOfStore(f) ==
    /\ f.len = RegistrySize
    /\ \A g \in 0 .. (RegistrySize - 1) : g \in f.bs <=> g \in Contributors
    /\ Card(f) = SumCard(m, DOMAIN m)

\* C14 as stated: in every reachable store state, whatever the order in which
\* the map yields the levels, FullSignature has the length of the registry,
\* bit g is set iff identity g contributes to some stored Best(k), and its
\* cardinality is the sum of the stored cardinalities.
C14_FullSignatureIsUnion ==
    \A o \in Orders(DOMAIN m) : IsFullOfStore(CombineFullIn(m, o))

\* C14 amended: the same for every store holding at least one signature; the
\* empty store gives the nil signature.
C14_FullSignatureIsUnionOfNonEmptyStore ==
    \A o \in Orders(DOMAIN m) :
        IF DOMAIN m = {} THEN CombineFullIn(m, o) = NilMultiSig
        ELSE /\ IsFullOfStore(CombineFullIn(m, o))
             /\ CombineFullIn(m, o) = FullSignature

\* Every level holds a signature, the one of level 2 is partial, and the full
\* signature lacks exactly the missing identity.
C14_Witness ==
    /\ DOMAIN m = Levels
    /\ m[2].bs = {0}
    /\ m[3].bs = Positions(3)
    /\ FullSignature.bs = (0 .. (RegistrySize - 1)) \ {3}

\* A packet the claim C15 is about.
Refused(p) ==
    \/ p.origin >= RegistrySize
    \/ p.level > MaxLevel
    \/ Unmarshal(p.multiSig).err

\* What the processor holds or delivered comes from a packet with an origin in
\* the registry, a level up to the last one and a parsed multi-signature.
FromAcceptedPacket(sp) ==
    /\ sp.origin < RegistrySize
    /\ sp.level <= MaxLevel
    /\ sp.ms # NilMultiSig

NothingRefusedInside ==
    /\ \A i \in DOMAIN todos : FromAcceptedPacket(todos[i])
    /\ \A i \in DOMAIN out : FromAcceptedPacket(out[i])
    /\ \A i \in DOMAIN published : FromAcceptedPacket(published[i])

\* C15: a call of NewPacket with a packet whose origin is >= N, whose level is
\* above the last level or whose multi-signature does not unmarshal is
\* reported as an error and leaves the processor, the store, the levels and
\* the result channel as they were; no such packet is ever inside the
\* processor.
C15_BadPacketsDropped ==
    /\ []NothingRefusedInside
    /\ [][(last' # last /\ last'.op = "NewPacket" /\ Refused(last'.p)) =>
            /\ last'.err
            /\ UNCHANGED <<storeVars, nodeVars>>]_vars

\* A packet with an unreadable multi-signature was refused while the processor
\* held signatures and the store had taken one from the network.
C15_Witness ==
    /\ last.op = "NewPacket"
    /\ last.p.multiSig = Garbage
    /\ last.err
    /\ Len(todos) > 0
    /\ DOMAIN m # {0}

\* C16: Handel.Stop is idempotent: a second call returns without failure and
\* the result channel is closed exactly once, so the node never fails on the
\* close of an already closed result channel.
C16_StopIdempotent == ~crashed

\* Stop was called on the processor: the death pill is in the list.
Stopped == \E i \in DOMAIN todos : todos[i] = deathPillPair

\* The worker closed the Verified channel and left its loop.
WorkerExited == outClosed /\ pc = "exit"

\* C17: once Stop was called on the processor, and the Verified channel being
\* drained, the worker eventually closes the Verified channel and exits; from
\* then on it stays closed, the worker stays out of its loop and nothing is
\* sent on the channel, whatever is added with or after Stop.
C17_StopClosesVerifiedOnce ==
    /\ [](outClosed => pc = "exit")
    /\ [][outClosed => /\ outClosed' /\ pc' = "exit"
                       /\ published' = published
                       /\ Len(out') <= Len(out)]_vars
    /\ Stopped ~> WorkerExited

\* The worker exited after publishing a signature, and a packet handed to the
\* processor after Stop is left in the list behind the death pill.
C17_Witness ==
    /\ WorkerExited
    /\ published # <<>>
    /\ \E i, j \in DOMAIN todos : i < j /\ todos[i] = deathPillPair /\ todos[j] # deathPillPair

\* The verified signature in hand calls for an emission: the node is not
\* stopped, the full signature reaches the threshold and is above the last
\* emitted one.
EmissionDue ==
    /\ ~done
    /\ Card(FullSignature) >= threshold
    /\ (hBest = <<>> \/ Card(FullSignature) > Card(hBest[1]))

\* The last emitted signature is the best the node remembers; the emitted
\* signatures reach the threshold and grow strictly.
EmissionsRecorded ==
    /\ (hBest = <<>>) <=> (final = <<>>)
    /\ hBest # <<>> => hBest[1] = final[Len(final)]
    /\ \A i \in DOMAIN final : Card(final[i]) >= threshold
    /\ \A i, j \in DOMAIN final : i < j => Card(final[i]) < Card(final[j])

\* C18: while a verified signature is handled the store is left alone and no
\* other one is received; the handling ends with the publication of a
\* signature of the cardinality of the full signature when this cardinality
\* reaches the threshold and exceeds the last emitted one and Stop was not
\* called, and with no publication otherwise; with a threshold of N there is
\* at most one emission, of cardinality N.
C18_FinalSignaturePublished ==
    /\ []EmissionsRecorded
    /\ [](threshold = RegistrySize =>
            /\ Len(final) <= 1
            /\ \A i \in DOMAIN final : Card(final[i]) = RegistrySize /\ final[i] = FullSignature)
    /\ [][hpc = "actors" =>
            /\ m' = m
            /\ hpc' \in {"actors", "recv"}
            /\ hpc' = "actors" => v' = v
            /\ hpc' = "recv" =>
                   IF EmissionDue
                   THEN /\ Len(final') = Len(final) + 1
                        /\ SubSeq(final', 1, Len(final)) = final
                        /\ Card(final'[Len(final')]) = Card(FullSignature)
                   ELSE final' = final]_vars

\* A node with the whole registry as threshold emitted its one signature.
C18_Witness ==
    /\ threshold = RegistrySize
    /\ Len(final) = 1
    /\ Card(final[1]) = RegistrySize
    /\ hpc = "recv"

\* A NewPacket holds the mutex of the node and waits for room in the incoming
\* channel, the processor holds a verified pair and waits for room in the
\* Verified channel, rangeOnVerified holds a signature and waits for the mutex
\* of the node: every task waits for another one.
AllBlocked ==
    /\ hLock # <<>> /\ Len(todos) >= FifoCap
    /\ pc = "verify" /\ Len(out) >= VerifiedCap
    /\ hpc = "actors"

\* C19: the node does not deadlock: there is no reachable state in which the
\* packet listener, the processor and the reader of the Verified channel are
\* all blocked, and NewPacket never waits on a channel with the mutex of the
\* node held.
C19_DeadlockFree ==
    /\ ~AllBlocked
    /\ hLock # <<>> => ENABLED NextFifo

\* The pairs among sps that pass verifySignature, in the order of sps.
ValidOf(sps) == SelectSeq(sps, verifySignature)

\* The pairs the fifo processor still holds, oldest first: the one it is about
\* to send, those of the incoming channel, the one NewPacket waits to send.
Held == scan.best \o todos \o hLock

\* C20: with the fifo processor the valid signatures are published on the
\* Verified channel in the order in which NewPacket took them and none is
\* dropped: the published ones are the first valid ones taken, those that
\* follow are still held, in order.
C20_FifoOrderNoneDropped ==
    LET valid == ValidOf(AddOrder)
    IN /\ Len(published) <= Len(valid)
       /\ SubSeq(valid, 1, Len(published)) = published
       /\ SubSeq(valid, Len(published) + 1, Len(valid)) = ValidOf(Held)

\* The levels signatures come in for.
InLevels == 1 .. MaxLevel

\* C21: in every state of the store and for every incoming signature of a
\* level in [1, max_level] whose bitset has the size of the level, Evaluate
\* returns a score of at least 0: the panic on a negative score is not reached.
C21_EvaluateNonNegative ==
    \A level \in InLevels : \A sp \in Incoming(level) : Evaluate(sp) >= 0

\* An individual signature inside a larger best one: the count of added
\* signatures is negative and the score is 1.
C21_Witness ==
    \E level \in InLevels : \E sp \in Incoming(level) :
        /\ level \in DOMAIN m
        /\ IntersectionCardinality(sp.ms.bs, m[level].bs) # 0
        /\ Cardinality(Or(sp.ms.bs, indivSigsVerified[level])) - Card(m[level]) < 0
        /\ Size(level) # Card(m[level])
        /\ Evaluate(sp) = 1

\* No signature the node holds for the store was taken for level 0.
NoInputAtLevelZero ==
    /\ \A i \in DOMAIN todos : todos[i].level # 0
    /\ \A i \in DOMAIN out : out[i].level # 0
    /\ \A i \in DOMAIN v : v[i].level # 0
    /\ \A i \in DOMAIN published : published[i].level # 0

\* C22: in every state of a constructed node Best(0) is the own signature with
\* its single bit, and no input of the network reaches level 0 of the store;
\* FullSignature and Combined are never nil and FullSignature has the bit of
\* the own identifier.
C22_OwnSignatureKept ==
    /\ 0 \in DOMAIN m
    /\ m[0] = mySig
    /\ NoInputAtLevelZero
    /\ FullSignature # NilMultiSig
    /\ OwnId \in FullSignature.bs
    /\ \A level \in Levels : Combined(level).ms # NilMultiSig

\* A packet of level 0 was refused by a node that stored signatures of peers.
C22_Witness ==
    /\ last.op = "NewPacket"
    /\ last.p.level = 0
    /\ last.err
    /\ DOMAIN m # {0}
    /\ m[0] = mySig

\* Best(level) after Store(level, a) followed by Store(level, b).
BestAfterBoth(level, a, b) ==
    LET r1 == StoreResult(m, indivSigsVerified, individualSigs, level, a)
        r2 == StoreResult(r1.m, r1.vl, r1.indiv, level, b)
    IN r2.m[level]

\* Two signatures of a level that share no bit with each other nor with the
\* best one of the level.
DisjointPairs(level) ==
    {ab \in Verified(level) \X Verified(level) :
        /\ ab[1].bs \cap ab[2].bs = {}
        /\ level \in DOMAIN m => (ab[1].bs \cup ab[2].bs) \cap m[level].bs = {}}

\* Stored in either order, two disjoint signatures give the same best bitset.
EitherOrder ==
    \A level \in Levels : \A ab \in DisjointPairs(level) :
        BestAfterBoth(level, ab[1], ab[2]).bs = BestAfterBoth(level, ab[2], ab[1]).bs

\* Store(level, ms) with a best signature ms2 that shares no bit with ms: the
\* new best bitset is the union of both and of the verified individual ones,
\* its signature is the combination of the two signatures.
DisjointStore ==
    LET level == last'.level
        bs == last'.bs
    IN (last'.op = "Store" /\ level \in DOMAIN m /\ bs \cap m[level].bs = {}) =>
          /\ m'[level].len = Size(level)
          /\ m'[level].bs = bs \cup m[level].bs \cup indivSigsVerified[level]
          /\ indivSigsVerified[level] \subseteq bs \cup m[level].bs =>
                 m'[level].sig = Combine(GoodSig(bs), m[level].sig)

\* C23: Store(l, ms) with Best(l) = ms2 and the bitsets of ms and ms2 disjoint
\* leaves as Best(l) the union of both bitsets (and of the verified individual
\* signatures still missing) with the combination of ms.sig and ms2.sig as
\* signature; two disjoint signatures stored in either order give the same
\* best bitset.
C23_DisjointMerge == []EitherOrder /\ [][DisjointStore]_vars

\* Store merged a signature into a disjoint best one.
C23_Witness ==
    /\ last.op = "Store"
    /\ last.changed
    /\ last.bs # {}
    /\ last.bs \subseteq m[last.level].bs
    /\ last.bs # m[last.level].bs

\* Store(level, ms) with a best signature ms2 that shares a bit with ms: ms2 is
\* kept when ms has no more contributors than ms2, and replaced by ms when ms
\* has more.
OverlapStore ==
    LET level == last'.level
        bs == last'.bs
    IN (last'.op = "Store" /\ level \in DOMAIN m /\ bs \cap m[level].bs # {}) =>
          IF Cardinality(bs) <= Card(m[level])
          THEN m'[level] = m[level]
          ELSE m'[level].bs = bs \cup indivSigsVerified[level]

\* C24: Store(l, ms) with Best(l) = ms2 and the bitsets of ms and ms2
\* overlapping leaves Best(l) equal to ms2 whenever |ms| <= |ms2|, the equal
\* cardinality included, and replaces it by ms (with the verified individual
\* signatures still missing) only when |ms| > |ms2|.
C24_OverlapKeepsUnlessLarger == [][OverlapStore]_vars

\* The cardinality of Best(level) in the store mm, 0 when there is none.
BestCard(mm, level) == IF level \in DOMAIN mm THEN Card(mm[level]) ELSE 0

\* The store after Store(sp.level, sp.ms) in the present state.
StoredMap(sp) == StoreResult(m, indivSigsVerified, individualSigs, sp.level, sp.ms).m

\* C25: a signature Evaluate scores 0 does not raise the cardinality of
\* Best(level) when it is stored in the same state: every signature whose
\* Store would enlarge the best one has a positive score.
C25_ZeroScoreAddsNothing ==
    \A level \in Levels : \A sp \in Incoming(level) :
        Evaluate(sp) = 0 => BestCard(StoredMap(sp), level) <= BestCard(m, level)

\* An aggregate that overlaps an incomplete best one without being inside it
\* is scored 0; stored, it takes the place of the best one without enlarging it.
C25_Witness ==
    \E level \in Levels : \E sp \in Incoming(level) :
        /\ level \in DOMAIN m
        /\ Card(m[level]) < Size(level)
        /\ ~(sp.ms.bs \subseteq m[level].bs)
        /\ Evaluate(sp) = 0
        /\ StoredMap(sp)[level] # m[level]
        /\ Card(StoredMap(sp)[level]) = Card(m[level])

\* Store(sp.level, sp.ms) in the present state brings Best(level) from below
\* the size of the level to the size of the level.
Completes(sp) ==
    /\ BestCard(m, sp.level) < Size(sp.level)
    /\ BestCard(StoredMap(sp), sp.level) = Size(sp.level)

\* C26: Evaluate returns 1000000 - l for every incoming signature of level l
\* whose Store would bring Best(l) from below the size of the level to the
\* size of the level, also when the signature overlaps the best one and takes
\* its place; the score is above the score of every signature that does not
\* complete its level.
C26_CompletingScore ==
    \A level \in InLevels : \A sp \in Incoming(level) :
        IF Completes(sp)
        THEN Evaluate(sp) = 1000000 - level
        ELSE Evaluate(sp) < 1000000 - MaxLevel

\* C27: Evaluate gives the score 1000000 - l of a completed level only to a
\* signature whose Store would bring Best(l) to the size of the level, never
\* to one that would leave Best(l) incomplete.
C27_CompletingScoreOnlyIfCompletes ==
    \A level \in InLevels : \A sp \in Incoming(level) :
        Evaluate(sp) = 1000000 - level => Completes(sp)

\* A signature gets the score of a completed level for a merge with a best
\* one it shares no bit with.
C27_Witness ==
    \E level \in InLevels : \E sp \in Incoming(level) :
        /\ level \in DOMAIN m
        /\ m[level].bs # {}
        /\ sp.ms.bs \cap m[level].bs = {}
        /\ Evaluate(sp) = 1000000 - level
        /\ StoredMap(sp)[level].bs = Positions(level)

\* C28: in every state of the store and for every level, the signature of
\* Best(l) is the combination of the individual signatures of exactly the
\* identities whose bits are set in its bitset, each of them once: no
\* contributor is counted twice or left out by a merge or a replacement.
C28_SignatureMatchesBitSet ==
    \A level \in DOMAIN m : m[level].sig = GoodSig(m[level].bs)

\* A best signature of three contributors or more built by a merge.
C28_Witness ==
    /\ last.op = "Store"
    /\ last.changed
    /\ last.bs \subseteq m[last.level].bs
    /\ Cardinality(last.bs) < Card(m[last.level])
    /\ Card(m[last.level]) >= 3
    /\ m[last.level].sig = GoodSig(m[last.level].bs)

\* Every verified individual signature of the bitset is in the individuals map.
VerifiedAreKept ==
    \A level \in Levels : \A pos \in indivSigsVerified[level] :
        pos \in DOMAIN individualSigs[level]

\* The best signature of a level has the bit length of the level.
BestHasLevelLength == \A level \in DOMAIN m : m[level].len = Size(level)

\* C29: in every state of the store and for every level l, each bit set in the
\* verified-individuals bitset of l has an entry in the individuals map of l,
\* the verified-individuals bitset of l has the bit length Size(l), and
\* Best(l), when there is one, has the bit length Size(l).
C29_StoreRepresentation ==
    /\ VerifiedAreKept
    /\ \A level \in Levels :
          /\ level \in DOMAIN indivSigsVerifiedLength
          /\ indivSigsVerifiedLength[level] = Size(level)
    /\ BestHasLevelLength

\* The identities picked so far for a level, in the order of the calls.
RECURSIVE PicksIn(_, _)
PicksIn(sends, level) ==
    IF sends = <<>> THEN <<>>
    ELSE (IF Head(sends).level = level THEN Head(sends).to ELSE <<>>) \o PicksIn(Tail(sends), level)

Picks(level) == PicksIn(SentSoFar, level)

\* C30: the successive sendUpdate calls of a level pick the peers by rotating
\* through the nodes of the level, with a cursor kept for the level from one
\* call and one tick to the next: each call goes on after the last peer of
\* the call before and wraps after the last node, so that no peer is picked
\* again before every other peer of the level was picked.
C30_PicksRotate ==
    \A id \in 1 .. MaxLevel :
        \A k \in DOMAIN Picks(id) :
            Picks(id)[k] = hLevels[id].nodes[((k - 1) % Len(hLevels[id].nodes)) + 1]

\* C31: once sendUpdate has sent for level l to as many peers as the level has
\* nodes, the level is finished and nothing more is sent for it, by a tick or
\* by a burst, until Best(l) improves.  Best(l) never improved while the store
\* holds no signature of level l: until then the peers picked for l are at
\* most the nodes of l.
C31_FinishedLevelSendsNoMore ==
    \A id \in 1 .. MaxLevel :
        id \notin DOMAIN m => Len(Picks(id)) <= Len(hLevels[id].nodes)

\* The bursts sent so far for a level.
Bursts(id) ==
    {k \in DOMAIN SentSoFar : SentSoFar[k].level = id /\ SentSoFar[k].by = "checkCompletedLevel"}

\* C32: the burst of a level, sendUpdate(l, CandidateCount) called by
\* checkCompletedLevel, is sent only while the verified signature that brings
\* Best(l) to the size of the level is handled: updateBestSig reports the
\* completion of a level once at most, and no later verified signature
\* repeats the burst of a level whose best signature is complete.
C32_BurstOncePerLevel ==
    \A id \in 1 .. MaxLevel : Cardinality(Bursts(id)) <= 1

\* What a call sent for a level.
SendsFor(sends, id) == SelectSeq(sends, LAMBDA s : s.level = id)

\* The timeout of a level has passed t update periods after the start.
TimedOut(id, t) == id = 1 \/ t >= id * LevelTimeout

\* A periodicUpdate t periods after the start sent sends: one packet of level
\* id with Combined(id - 1) to one node of the level for every level that is
\* not finished and whose timeout has passed, none for a level whose timeout
\* has not passed and whose best signature is incomplete.
UpdateSends(sends, t) ==
    \A id \in 1 .. MaxLevel :
        LET s == SendsFor(sends, id)
        IN /\ (~hLevels[id].finished /\ TimedOut(id, t)) =>
                  /\ Len(s) = 1
                  /\ s[1].ms = Combined(id - 1).ms
                  /\ Len(s[1].to) = 1
                  /\ \E k \in DOMAIN hLevels[id].nodes : s[1].to[1] = hLevels[id].nodes[k]
           /\ (~TimedOut(id, t) /\ BestCard(m, id) < Len(hLevels[id].nodes)) => s = <<>>

\* C33: at Start and on every tick, each level l that is not finished and for
\* which l = 1 or the time since Start is at least l times the level timeout
\* gets Combined(l - 1) in a packet of level l sent to exactly one peer of the
\* level; a level whose timeout has not passed and whose best signature is
\* not complete gets no packet.
C33_TickSendsStartedLevels ==
    [][ticks' = ticks + 1 =>
          /\ last'.op = "send" /\ last'.by = "periodicUpdate"
          /\ UpdateSends(last'.sends, ticks)]_vars

\* The third periodicUpdate sent for the levels 1 and 2 and not for level 3,
\* whose timeout had not passed.
C33_Witness ==
    /\ ticks = 3
    /\ last.op = "send" /\ last.by = "periodicUpdate"
    /\ Len(last.sends) = 2
    /\ SendsFor(last.sends, 2) # <<>>
    /\ SendsFor(last.sends, 3) = <<>>

\* Something was sent for the level: sendUpdate found it started, by the
\* completion of its best signature or by its timeout.
WasStarted(id) == \E k \in DOMAIN SentSoFar : SentSoFar[k].level = id

\* C34: a level that became started stays started: once Best(l) has reached
\* the size of the level or a tick has seen the timeout of l passed, the
\* level is started in every later state.
C34_StartedStays ==
    \A id \in 1 .. MaxLevel : WasStarted(id) => hLevels[id].started

\* The identities that contributed to the signatures stored below a level.
ContributorsBelow(level) ==
    UNION {{RangeOf[k][1] + i : i \in m[k].bs} : k \in {j \in DOMAIN m : j < level}}

\* What a node b of the registry reads in a packet of a level: the length its
\* verifySignature asks for, and the identities it takes the set bits for.
SizeAt(b, level) == rangeLevel(b, level)[2] - rangeLevel(b, level)[1]

IdentitiesRead(b, level, bs) == {rangeLevel(b, level)[1] + i : i \in bs}

\* A packet sent to b is accepted by the length check of b, and b reads in it
\* the identities that contributed to it.
ReadAsSent(s) ==
    \A k \in DOMAIN s.to :
        /\ s.ms.len = SizeAt(s.to[k], s.level)
        /\ IdentitiesRead(s.to[k], s.level, s.ms.bs) = ContributorsBelow(s.level)

\* For every registry, every node a, every level and every node b of the
\* candidate set of a at the level: the range the bitset a sends at the level
\* spans is the candidate set of b at the level.
SameRanges ==
    \A size \in RegistrySizes : \A a \in 0 .. (size - 1) : \A level \in 1 .. log2(size) :
        \A b \in rangeLevelOf(size, a, level)[1] .. (rangeLevelOf(size, a, level)[2] - 1) :
            rangeLevelInverseOf(size, a, level) = rangeLevelOf(size, b, level)

\* C35: for two nodes a and b of a registry and the level l at which b is a
\* candidate of a, the packet a sends at level l has a bitset of the length
\* Size(l) of b, in which bit i stands for the identity IdentitiesAt(l)[i] of
\* b: b accepts its length and credits every contribution to its identity.
C35_PacketReadAsSent ==
    /\ []SameRanges
    /\ [][(last' # last /\ last'.op = "send") =>
              \A k \in DOMAIN last'.sends : ReadAsSent(last'.sends[k])]_vars

\* The node sent, at the last level, a signature with the contributions of
\* three levels below it.
C35_Witness ==
    /\ last.op = "send"
    /\ \E k \in DOMAIN last.sends :
          /\ last.sends[k].level = MaxLevel
          /\ Card(last.sends[k].ms) = Size(MaxLevel)
          /\ ReadAsSent(last.sends[k])

\* The signatures of the store Combine accepts for a level.
UpTo(level) == [k \in {j \in DOMAIN m : j <= level} |-> m[k]]

\* The position Combine gives to bit i of the signature of level k in the
\* bitset of level upTo.
PlaceOf(k, i, upTo) == RangeOf[k][1] - rangeLevelInverse(OwnId, upTo)[1] + i

\* The layout of Combine(sigs, upTo) for the signatures sigs of levels ks: the
\* bitset has the width of the inverse range of upTo, every bit of every
\* signature has its place inside the bitset, with its value, and the places
\* of two levels do not overlap.
LayoutOf(sigs, ks, upTo) ==
    LET width == rangeLevelInverse(OwnId, upTo)[2] - rangeLevelInverse(OwnId, upTo)[1]
        res == binomialCombine(sigs, upTo).ms
    IN /\ res.len = width
       /\ \A k \in ks : \A i \in 0 .. (sigs[k].len - 1) :
             /\ PlaceOf(k, i, upTo) \in 0 .. (width - 1)
             /\ PlaceOf(k, i, upTo) \in res.bs <=> i \in sigs[k].bs
       /\ \A k1, k2 \in ks : k1 # k2 =>
             {PlaceOf(k1, i, upTo) : i \in 0 .. (sigs[k1].len - 1)}
                 \cap {PlaceOf(k2, i, upTo) : i \in 0 .. (sigs[k2].len - 1)} = {}

\* C36: Combine(sigs, up_to_level) returns a bitset of the width of the
\* inverse range of up_to_level and puts bit i of the signature of level k at
\* min(range(k)) - min(inverse_range(up_to_level)) + i; for every signature it
\* accepts (level <= up_to_level) these positions are inside [0, width) and
\* the positions of different levels do not overlap.
C36_CombineLayout ==
    \A upTo \in 1 .. MaxLevel :
        DOMAIN UpTo(upTo) # {} => LayoutOf(UpTo(upTo), DOMAIN UpTo(upTo), upTo)

\* The identifiers of a registry of N identities whose bits from the given
\* index upwards are those of id.
SameTopBits(N, id, from) == {x \in 0 .. (N - 1) : x \div pow2(from) = id \div pow2(from)}

\* C37: for a registry whose size N is a power of two, any own identifier and
\* any level l in [1, log2(N)], rangeLevel(l) is exactly the set of the
\* identifiers that share the top log2(N) - l bits with the own identifier
\* and differ from it in bit l-1, and rangeLevelInverse(l) is exactly the set
\* of the identifiers that share the top log2(N) - l + 1 bits with it.
C37_RangesByBits ==
    (last.op = "rangeLevel" /\ last.level >= 1) =>
        /\ Ids(last.range) =
              {x \in SameTopBits(last.size, last.id, last.level) :
                  isSet(x, last.level - 1) # isSet(last.id, last.level - 1)}
        /\ Ids(rangeLevelInverseOf(last.size, last.id, last.level)) =
              SameTopBits(last.size, last.id, last.level - 1)

\* rangeLevel was called for level 2 by the identifier 5 of a registry of 8
\* identities: the candidates are 6 and 7, the inverse range holds 4 and 5.
C37_Witness ==
    /\ last.op = "rangeLevel"
    /\ last.size = 8 /\ last.id = 5 /\ last.level = 2
    /\ last.range = <<6, 8>>
    /\ rangeLevelInverseOf(8, 5, 2) = <<4, 6>>

\* The pairs added to the processor before Stop that are still in its list:
\* those in front of the death pill.
PendingBeforeStop == {i \in DOMAIN todos : \A j \in 1 .. i : todos[j] # deathPillPair}

\* C38: Stop drains the queue: every pair added to the processor before Stop
\* is processed (verified and published, or dropped for a score of 0 or a
\* failed verification) before the worker closes the Verified channel, so no
\* pair with a positive score is left in the list in front of the death pill
\* once the channel is closed.
C38_StopDrains ==
    outClosed => \A i \in PendingBeforeStop :
                    todos[i].ms = NilMultiSig \/ Mark(todos[i]) <= 0

\* A step sends a packet to the network.
SendsPacket == last' # last /\ last'.op = "send" /\ last'.sends # <<>>

\* A step emits a multi-signature on the result channel.
EmitsFinal == final' # final

\* A step hands a packet to the processor.
HandsToProcessor == added' # added

\* C39: after Handel.Stop has returned the node is quiescent: it sends no
\* packet to the network, emits nothing on the result channel and hands no
\* incoming packet to the processor, even when a tick or a verified signature
\* was in flight when Stop was called.
C39_QuiescentAfterStop ==
    [][done => ~SendsPacket /\ ~EmitsFinal /\ ~HandsToProcessor]_vars

\* C40: every signature NewPacket hands to the processor has an origin in
\* [0, N) and a level in [1, max_level], a negative origin being refused like
\* one beyond the registry, so that Evaluate and the verification never index
\* a bitset, a level map or the registry outside its range.
C40_HandedInRange ==
    \A sp \in DOMAIN added :
        /\ sp.origin \in 0 .. (RegistrySize - 1)
        /\ sp.level \in 1 .. MaxLevel

====
